---- MODULE Spec2Model ----
(***************************************************************************)
(* A model of the DynamoDB benchmark engine (benchmark/main.go): Run       *)
(* launches Connections workers; each worker performs NumCalls iterations  *)
(* of its action through retry() against one shared record (id, age, ver)  *)
(* held by the store; Run joins the workers and prints the summary.        *)
(*                                                                         *)
(* One step of a worker is one pass through the body of retry's loop: the  *)
(* store call the closure makes, the closure's own handling of the         *)
(* response, retry's decision to return, break or sleep, and, when retry   *)
(* returns, the worker's code up to its next store call (the atomic add on *)
(* the counter, the loop increment, wg.Done at the end).  The counters are *)
(* only touched by atomic adds and only read after wg.Wait, so the adds    *)
(* commute with every step of the other workers.                           *)
(***************************************************************************)
EXTENDS Integers, Sequences, FiniteSets, TLC

\* ------------------------------------------------------------- bounds
MaxConnections == 2
MaxNumCalls == 2
MaxRetryNum == 2
\* -r is not validated: RetryNum ranges from -MaxRetryDeficit.
MaxRetryDeficit == 1
MaxCondition == 1
MaxAge == 2
MaxVer == 0
MaxRand == 2
MaxElapsedMs == 3
\* Connections x NumCalls x RetryNum, the passes of one retry loop in a run
\* whose every store call fails.
MaxPasses == 4

VARIABLES
    cfg,              \* the DynamoDBBenchmark struct
    record,           \* the item under test, at the store: [age, ver]
    committed,        \* the store's committed ClientRequestTokens
    pc,               \* per worker: the store call it makes next, or "done"
    it,               \* per worker: the loop variable i of the worker's for loop
    ri,               \* per worker: the loop variable i of retry
    obsVer,           \* per worker: :ver_value of param, set by the read closure
    successCount, errorCount, successGetCount, errorGetCount,
    wg,               \* the WaitGroup counter
    phase,            \* "Idle" in main, "Running" in Run, then how the process ended
    exitStatus,       \* the exit status of the process, -1 while it runs
    duration_ms, average_ms,
    lastSuccessedTimeNanoUnix,  \* Run's shared timestamp, 0 until a worker stores
    clock,            \* the wall clock, in samples taken of it since startTime
    sample,           \* per worker: the time.Now() it is about to store, or 0
    \* history, read by the properties only
    initial,          \* the record when the run started
    faulted,          \* some store call met a transport or decode failure
    ftrace,           \* per worker: what f returned, call by call, in the current retry
    ret,              \* per worker: what the last finished retry returned
    applied,          \* per worker: decrements the store applied for the current iteration
    tokensSent,       \* per worker: the tokens submitted in the current iteration
    sinceRead,        \* per worker: UpdateItem calls submitted since its last GetItem
    log,              \* per worker: the finished read-then-write iterations
    begun,            \* per worker: the iterations of its for loop it has entered
    sent,             \* per worker: the store calls made in the current iteration
    recorded,         \* the iteration outcomes the workers have recorded, by counter
    slept,            \* per worker: the time.Sleep calls of the retry under way
    unacked           \* some call applied its update and returned an error

vars == << cfg, record, committed, pc, it, ri, obsVer, successCount, errorCount,
           successGetCount, errorGetCount, wg, phase, exitStatus, duration_ms,
           average_ms, lastSuccessedTimeNanoUnix, clock, sample, initial, faulted,
           ftrace, ret, applied, tokensSent, sinceRead, log, begun, sent, recorded,
           slept, unacked >>

\* ------------------------------------------------------------- values
Nil == "nil"
ErrConditionalCheckFailed == "ConditionalCheckFailedException"
ErrTransactionCanceled == "TransactionCanceledException"
ErrRequest == "RequestError"
ErrUnmarshal == "UnmarshalError"
\* retry's return value when it returns nil, in the shape of RetryError.
NilError == [attempts |-> 0, last |-> Nil]
\* No retry has returned yet.
None == [val |-> NilError, calls |-> << >>, sleeps |-> 0]

Actions == {"read", "write", "write-condition", "write-condition-with-get",
            "write-transaction"}

Workers == 1 .. cfg.Connections

\* ------------------------------------------------------------- retry
\* A loop that breaks on the pass numbered attempts - 1 only.
RetryOutcomeBreaksOnEquality(attempts, i, e) ==
    IF e = Nil THEN "return" ELSE IF i = attempts - 1 THEN "break" ELSE "sleep"

\* A loop that breaks one pass late.
RetryOutcomeOffByOne(attempts, i, e) ==
    IF e = Nil THEN "return" ELSE IF i >= attempts THEN "break" ELSE "sleep"

\* A loop that gives up at once on a failed condition.
RetryOutcomeNoRetryOfConditionFailure(attempts, i, e) ==
    IF e = Nil THEN "return"
    ELSE IF e \in {ErrConditionalCheckFailed, ErrTransactionCanceled} \/ i >= attempts - 1
    THEN "break"
    ELSE "sleep"

\* retry's loop after f returned e in pass i: return nil, break or sleep.
RetryOutcome(attempts, i, e) ==
    IF e = Nil THEN "return" ELSE IF i >= attempts - 1 THEN "break" ELSE "sleep"

\* fmt.Errorf("after %d attempts, last error: %s", attempts, err)
RetryError(attempts, e) == [attempts |-> attempts, last |-> e]

\* An add whose write is lost.
AddUint32Lost(x) == x

\* atomic.AddUint32(p, 1).  The counter wraps at 2^32, which no run of at most
\* MaxConnections * MaxNumCalls iterations comes near.
AddUint32(x) == x + 1

\* ------------------------------------------------------------- store
\* An update that leaves ver as it was.
UpdateExpressionNoVersion(rec) == [age |-> rec.age - 1, ver |-> rec.ver]

\* An update that increments age.
UpdateExpressionIncrement(rec) == [age |-> rec.age + 1, ver |-> rec.ver + 1]

\* "set age = age - :age_decrement_value, ver = ver + :ver_increment_value"
UpdateExpression(rec) == [age |-> rec.age - 1, ver |-> rec.ver + 1]

\* startWriteWorker: "age >= :age_minimum_value"
WriteCondition(rec) == rec.age >= cfg.Condition

\* A condition that forgets the version check.
WriteConditionWithGetNoVersion(rec, ver_value) == rec.age >= cfg.Condition

\* startWriteWorkerCondition: "ver = :ver_value AND age >= :age_minimum_value"
WriteConditionWithGet(rec, ver_value) ==
    rec.ver = ver_value /\ rec.age >= cfg.Condition

\* A guard that lets the update through at age 0.
TransactConditionAtLeast(rec) == rec.age >= 0

\* startWriteWorkerTransaction: "age > :age_min_value", :age_min_value = "0"
TransactCondition(rec) == rec.age > 0

\* twii: unixTime _ id _ i _ RandomString(10); unixTime is fixed for the process.
ClientRequestToken(id, i, suffix) == << id, i, suffix >>

\* What a store call can meet on the wire: the response arrives ("acked"), the
\* request never reaches the store ("failed"), the store handles the request and
\* the response is lost ("lost"), or the response arrives and does not unmarshal
\* into Item ("undecodable").
GetOutcomes == {"acked", "failed", "undecodable"}
WriteOutcomes == {"acked", "failed", "lost", "undecodable"}
TransactOutcomes == {"acked", "failed", "lost"}

\* ------------------------------------------------------------- Run
\* Run's dispatch on c.Action: the worker function each goroutine runs.
WorkerOf(action) ==
    IF action = "read" THEN "startReadWorker"
    ELSE IF action = "write-condition" THEN "startWriteWorker"
    ELSE IF action = "write-transaction" THEN "startWriteWorkerTransaction"
    ELSE "startWriteWorkerCondition"

\* The first store call of an iteration of each worker function.
FirstCall(worker) ==
    IF worker = "startWriteWorker" THEN "UpdateItem"
    ELSE IF worker = "startWriteWorkerTransaction" THEN "TransactWriteItems"
    ELSE "GetItem"

\* Go's integer division truncates toward zero.
GoDiv(a, b) ==
    IF (a >= 0) = (b > 0) THEN (IF a >= 0 THEN a ELSE -a) \div (IF b > 0 THEN b ELSE -b)
    ELSE -((IF a >= 0 THEN a ELSE -a) \div (IF b > 0 THEN b ELSE -b))

\* A divisor that forgets the pre-read counters.
TotalCallsWritesOnly == successCount + errorCount

\* Run, line 135: the divisor of average_ms.
TotalCalls == successCount + errorCount + successGetCount + errorGetCount

Init ==
    /\ cfg \in [Action : Actions, TableName : {"", "table"}, Id : {"", "foo"},
                Connections : 0 .. MaxConnections, NumCalls : 0 .. MaxNumCalls,
                RetryNum : (0 - MaxRetryDeficit) .. MaxRetryNum, Condition : 0 .. MaxCondition,
                Verbose : BOOLEAN]
    /\ cfg.Connections * cfg.NumCalls * cfg.RetryNum <= MaxPasses
    /\ record \in [age : 0 .. MaxAge, ver : 0 .. MaxVer]
    /\ committed = {}
    /\ pc = [w \in Workers |-> "idle"]
    /\ it = [w \in Workers |-> 1]
    /\ ri = [w \in Workers |-> 0]
    /\ obsVer = [w \in Workers |-> 0]
    /\ successCount = 0
    /\ errorCount = 0
    /\ successGetCount = 0
    /\ errorGetCount = 0
    /\ wg = 0
    /\ phase = "Idle"
    /\ exitStatus = -1
    /\ duration_ms = 0
    /\ average_ms = 0
    /\ initial = record
    /\ faulted = FALSE
    /\ ftrace = [w \in Workers |-> << >>]
    /\ ret = [w \in Workers |-> None]
    /\ applied = [w \in Workers |-> 0]
    /\ tokensSent = [w \in Workers |-> {}]
    /\ sinceRead = [w \in Workers |-> 0]
    /\ log = [w \in Workers |-> << >>]
    /\ lastSuccessedTimeNanoUnix = 0
    /\ clock = 0
    /\ sample = [w \in Workers |-> 0]
    /\ begun = [w \in Workers |-> 0]
    /\ sent = [w \in Workers |-> 0]
    /\ recorded = [successCount |-> 0, errorCount |-> 0,
                   successGetCount |-> 0, errorGetCount |-> 0]
    /\ slept = [w \in Workers |-> 0]
    /\ unacked = FALSE

\* main's check of the flags: an empty -table or -id prints the usage.
ValidFlags == cfg.TableName # "" /\ cfg.Id # ""

\* usage(): fmt.Println(usageText); os.Exit(0)
UsageExitStatus == 0

\* The exit status of a Go program that panics, and of one whose main returns.
PanicExitStatus == 2
MainReturnExitStatus == 0

\* main after flag.Parse: usage() and the exit on an empty table or id,
\* otherwise s.Run() up to wg.Wait: wg.Add(1) and a goroutine per connection.
\* A goroutine runs alone up to its first store call, or up to its return when
\* its loop has no iteration.
Main ==
    /\ phase = "Idle"
    /\ IF ValidFlags
       THEN /\ phase' = "Running"
            /\ exitStatus' = exitStatus
            /\ wg' = cfg.Connections
            /\ pc' = [w \in Workers |->
                        IF 1 <= cfg.NumCalls THEN FirstCall(WorkerOf(cfg.Action))
                        ELSE "return"]
       ELSE /\ phase' = "Usage"
            /\ exitStatus' = UsageExitStatus
            /\ UNCHANGED << wg, pc >>
    /\ UNCHANGED << cfg, record, committed, it, ri, obsVer, successCount, errorCount,
                    successGetCount, errorGetCount, duration_ms, average_ms, initial,
                    faulted, ftrace, ret, applied, tokensSent, sinceRead, log,
                    lastSuccessedTimeNanoUnix, clock, sample, begun, sent, recorded,
                    slept, unacked >>

\* A worker whose for loop has no iteration: the deferred wg.Done.
WorkerReturn(w) ==
    /\ phase = "Running"
    /\ pc[w] = "return"
    /\ pc' = [pc EXCEPT ![w] = "done"]
    /\ wg' = wg - 1
    /\ UNCHANGED << cfg, record, committed, it, ri, obsVer, successCount, errorCount,
                    successGetCount, errorGetCount, phase, exitStatus, duration_ms,
                    average_ms, initial, faulted, ftrace, ret, applied, tokensSent,
                    sinceRead, log, lastSuccessedTimeNanoUnix, clock, sample, begun,
                    sent, recorded, slept, unacked >>

\* ------------------------------------------------------------- workers
\* A loop that sleeps before it looks at the number of attempts.
SleepsAfterEveryFailure(o) == IF o = "return" THEN 0 ELSE 1

\* The time.Sleep calls of one pass of retry's loop: one, past the return and
\* the break.
Sleeps(o) == IF o = "sleep" THEN 1 ELSE 0

\* What retry does with the result e of the pass worker w just made.
RetryPass(w, e) ==
    LET o == RetryOutcome(cfg.RetryNum, ri[w], e)
        calls == Append(ftrace[w], e)
        sleeps == slept[w] + Sleeps(o)
    IN  /\ ri' = [ri EXCEPT ![w] = IF o = "sleep" THEN @ + 1 ELSE 0]
        /\ ftrace' = [ftrace EXCEPT ![w] = IF o = "sleep" THEN calls ELSE << >>]
        /\ slept' = [slept EXCEPT ![w] = IF o = "sleep" THEN sleeps ELSE 0]
        /\ ret' = [ret EXCEPT ![w] =
                     IF o = "sleep" THEN None
                     ELSE [val |-> IF o = "return" THEN NilError
                                   ELSE RetryError(cfg.RetryNum, e),
                           calls |-> calls,
                           sleeps |-> sleeps]]

\* A worker that returns without wg.Done.
NextIterationForgetsDone(w) ==
    IF it[w] < cfg.NumCalls
    THEN /\ it' = [it EXCEPT ![w] = @ + 1]
         /\ pc' = [pc EXCEPT ![w] = FirstCall(WorkerOf(cfg.Action))]
         /\ wg' = wg
    ELSE /\ it' = it
         /\ pc' = [pc EXCEPT ![w] = "done"]
         /\ wg' = wg

\* The worker's for loop: i++ and the next iteration, or the deferred wg.Done.
NextIteration(w) ==
    IF it[w] < cfg.NumCalls
    THEN /\ it' = [it EXCEPT ![w] = @ + 1]
         /\ pc' = [pc EXCEPT ![w] = FirstCall(WorkerOf(cfg.Action))]
         /\ wg' = wg
    ELSE /\ it' = it
         /\ pc' = [pc EXCEPT ![w] = "done"]
         /\ wg' = wg - 1

\* time.Now().UnixNano(), counted in samples: each sample of the clock is later
\* than the one before it.
TimeNow == clock + 1

\* A store that keeps the older of the two values.
StoreInt64IfOlder(old, new) == IF new < old THEN new ELSE old

\* atomic.StoreInt64(addr, val): the value at addr afterwards.
StoreInt64(old, new) == new

\* A worker's code after a retry that returned nil, past the atomic add: the
\* read worker goes on with its loop; the write workers evaluate
\* time.Now().UnixNano(), the argument of the atomic.StoreInt64 they call next.
Succeeded(w) ==
    IF WorkerOf(cfg.Action) = "startReadWorker"
    THEN /\ NextIteration(w)
         /\ UNCHANGED << clock, sample >>
    ELSE /\ pc' = [pc EXCEPT ![w] = "StoreInt64"]
         /\ clock' = TimeNow
         /\ sample' = [sample EXCEPT ![w] = TimeNow]
         /\ UNCHANGED << it, wg >>

\* A store call of worker w: the first of its iteration, or a later one.
Send(w, first) ==
    /\ sent' = [sent EXCEPT ![w] = (IF first THEN 0 ELSE @) + 1]
    /\ begun' = [begun EXCEPT ![w] = IF first THEN @ + 1 ELSE @]

\* A worker that forgets to count a failed iteration.
CountWriteDropsError(w, e) ==
    LET o == RetryOutcome(cfg.RetryNum, ri[w], e)
    IN  /\ successCount' = IF o = "return" THEN AddUint32(successCount) ELSE successCount
        /\ errorCount' = errorCount
        /\ recorded' = [recorded EXCEPT
                          !.successCount = IF o = "return" THEN @ + 1 ELSE @]
        /\ IF o = "sleep" THEN UNCHANGED << it, pc, wg, clock, sample >>
           ELSE IF o = "break" THEN NextIteration(w) /\ UNCHANGED << clock, sample >>
           ELSE Succeeded(w)

\* After the retry: errorCount on an error and on to the next iteration,
\* successCount otherwise.
CountWrite(w, e) ==
    LET o == RetryOutcome(cfg.RetryNum, ri[w], e)
    IN  /\ successCount' = IF o = "return" THEN AddUint32(successCount) ELSE successCount
        /\ errorCount' = IF o = "break" THEN AddUint32(errorCount) ELSE errorCount
        /\ recorded' = [recorded EXCEPT
                          !.successCount = IF o = "return" THEN @ + 1 ELSE @,
                          !.errorCount = IF o = "break" THEN @ + 1 ELSE @]
        /\ IF o = "sleep" THEN UNCHANGED << it, pc, wg, clock, sample >>
           ELSE IF o = "break" THEN NextIteration(w) /\ UNCHANGED << clock, sample >>
           ELSE Succeeded(w)

\* A closure that returns nil for an update the condition refused.
UpdateClosureSwallowsConditionFailure(holds, out) ==
    IF out \in {"failed", "lost"} THEN ErrRequest
    ELSE IF holds /\ out = "undecodable" THEN ErrUnmarshal
    ELSE Nil

\* The closure around db.UpdateItem: under Verbose the response is unmarshalled
\* into a shadowing derr, which is returned only when it is an error; the
\* closure ends by returning UpdateItem's own error.
UpdateClosure(holds, out) ==
    IF out \in {"failed", "lost"} THEN ErrRequest
    ELSE IF ~holds THEN ErrConditionalCheckFailed
    ELSE IF out = "undecodable" THEN ErrUnmarshal
    ELSE Nil

\* startWriteWorker: one pass of retry around db.UpdateItem(param).
WriteWorkerUpdate(w) ==
    /\ phase = "Running"
    /\ WorkerOf(cfg.Action) = "startWriteWorker"
    /\ pc[w] = "UpdateItem"
    /\ \E out \in WriteOutcomes :
         LET holds == WriteCondition(record)
             applies == holds /\ out # "failed"
             e == UpdateClosure(holds, out)
         IN  /\ out = "undecodable" => (cfg.Verbose /\ holds)
             /\ record' = IF applies THEN UpdateExpression(record) ELSE record
             /\ applied' = [applied EXCEPT ![w] =
                              (IF ri[w] = 0 THEN 0 ELSE @) + (IF applies THEN 1 ELSE 0)]
             /\ faulted' = (faulted \/ out # "acked")
             /\ unacked' = (unacked \/ (applies /\ e # Nil))
             /\ RetryPass(w, e)
             /\ CountWrite(w, e)
             /\ Send(w, ri[w] = 0)
    /\ UNCHANGED << cfg, committed, obsVer, successGetCount, errorGetCount, phase,
                    exitStatus, duration_ms, average_ms, initial, tokensSent, sinceRead,
                    log, lastSuccessedTimeNanoUnix >>

\* startWriteWorkerCondition: one pass of retry around db.GetItem(param2).  The
\* closure overwrites GetItem's error with UnmarshalMap's, so a failed GetItem
\* (an empty response, which unmarshals into the zero Item) returns nil with
\* item.Ver = 0; only an unmarshalling error fails the pass.  Every pass
\* rebuilds param's condition values around item.Ver.
WriteWorkerConditionGet(w) ==
    /\ phase = "Running"
    /\ WorkerOf(cfg.Action) = "startWriteWorkerCondition"
    /\ pc[w] = "GetItem"
    /\ \E out \in GetOutcomes :
         LET itemVer == IF out = "acked" THEN record.ver ELSE 0
             e == IF out = "undecodable" THEN ErrUnmarshal ELSE Nil
             o == RetryOutcome(cfg.RetryNum, ri[w], e)
         IN  /\ obsVer' = [obsVer EXCEPT ![w] = itemVer]
             /\ faulted' = (faulted \/ out # "acked")
             /\ RetryPass(w, e)
             /\ successGetCount' =
                  IF o = "return" THEN AddUint32(successGetCount) ELSE successGetCount
             /\ errorGetCount' =
                  IF o = "break" THEN AddUint32(errorGetCount) ELSE errorGetCount
             /\ IF o = "return"
                THEN /\ pc' = [pc EXCEPT ![w] = "UpdateItem"]
                     /\ UNCHANGED << it, wg >>
                ELSE IF o = "break"
                THEN NextIteration(w)
                ELSE UNCHANGED << it, pc, wg >>
             /\ recorded' = [recorded EXCEPT
                               !.successGetCount = IF o = "return" THEN @ + 1 ELSE @,
                               !.errorGetCount = IF o = "break" THEN @ + 1 ELSE @]
             /\ applied' = [applied EXCEPT ![w] = IF ri[w] = 0 THEN 0 ELSE @]
             /\ sinceRead' = [sinceRead EXCEPT ![w] = 0]
             /\ Send(w, ri[w] = 0)
    /\ UNCHANGED << cfg, record, committed, successCount, errorCount, phase,
                    exitStatus, duration_ms, average_ms, initial, tokensSent, log,
                    lastSuccessedTimeNanoUnix, clock, sample, unacked >>

\* A finished retry around UpdateItem, for the log: it returned nil ("ok"), or
\* every call it made was refused by the condition ("refused"), or neither.
Summary(calls) ==
    IF calls[Len(calls)] = Nil THEN "ok"
    ELSE IF \A k \in 1 .. Len(calls) : calls[k] = ErrConditionalCheckFailed
    THEN "refused"
    ELSE "failed"

\* startWriteWorkerCondition: one pass of retry around db.UpdateItem(param),
\* param as the last read pass left it.
WriteWorkerConditionUpdate(w) ==
    /\ phase = "Running"
    /\ WorkerOf(cfg.Action) = "startWriteWorkerCondition"
    /\ pc[w] = "UpdateItem"
    /\ \E out \in WriteOutcomes :
         LET holds == WriteConditionWithGet(record, obsVer[w])
             applies == holds /\ out # "failed"
             e == UpdateClosure(holds, out)
             o == RetryOutcome(cfg.RetryNum, ri[w], e)
         IN  /\ out = "undecodable" => (cfg.Verbose /\ holds)
             /\ record' = IF applies THEN UpdateExpression(record) ELSE record
             /\ applied' = [applied EXCEPT ![w] = @ + (IF applies THEN 1 ELSE 0)]
             /\ sinceRead' = [sinceRead EXCEPT ![w] = @ + 1]
             /\ faulted' = (faulted \/ out # "acked")
             /\ unacked' = (unacked \/ (applies /\ e # Nil))
             /\ log' = [log EXCEPT ![w] =
                          IF o = "sleep" THEN @
                          ELSE Append(@, [obs |-> obsVer[w],
                                          res |-> Summary(Append(ftrace[w], e))])]
             /\ RetryPass(w, e)
             /\ CountWrite(w, e)
             /\ Send(w, FALSE)
    /\ UNCHANGED << cfg, committed, obsVer, successGetCount, errorGetCount, phase,
                    exitStatus, duration_ms, average_ms, initial, tokensSent,
                    lastSuccessedTimeNanoUnix >>

\* startWriteWorkerTransaction: one pass of retry around
\* db.TransactWriteItems(twii(i)).  twii runs inside the closure, so every pass
\* draws its own RandomString suffix.  The store applies a transaction whose
\* token it has not committed when the condition holds, and answers a token it
\* has committed with success and no effect.
WriteWorkerTransaction(w) ==
    /\ phase = "Running"
    /\ WorkerOf(cfg.Action) = "startWriteWorkerTransaction"
    /\ pc[w] = "TransactWriteItems"
    /\ \E suffix \in 1 .. MaxRand, out \in TransactOutcomes :
         LET token == ClientRequestToken(w, it[w], suffix)
             known == token \in committed
             holds == TransactCondition(record)
             applies == out # "failed" /\ ~known /\ holds
             e == IF out \in {"failed", "lost"} THEN ErrRequest
                  ELSE IF known \/ holds THEN Nil
                  ELSE ErrTransactionCanceled
         IN  /\ record' = IF applies THEN UpdateExpression(record) ELSE record
             /\ committed' = IF applies THEN committed \cup {token} ELSE committed
             /\ applied' = [applied EXCEPT ![w] =
                              (IF ri[w] = 0 THEN 0 ELSE @) + (IF applies THEN 1 ELSE 0)]
             /\ tokensSent' = [tokensSent EXCEPT ![w] =
                                 (IF ri[w] = 0 THEN {} ELSE @) \cup {token}]
             /\ faulted' = (faulted \/ out # "acked")
             /\ unacked' = (unacked \/ (applies /\ e # Nil))
             /\ RetryPass(w, e)
             /\ CountWrite(w, e)
             /\ Send(w, ri[w] = 0)
    /\ UNCHANGED << cfg, obsVer, successGetCount, errorGetCount, phase,
                    exitStatus, duration_ms, average_ms, initial, sinceRead, log,
                    lastSuccessedTimeNanoUnix >>

\* startReadWorker: one pass of retry around db.GetItem(param); it counts into
\* the successCount and errorCount it is handed.
ReadWorker(w) ==
    /\ phase = "Running"
    /\ WorkerOf(cfg.Action) = "startReadWorker"
    /\ pc[w] = "GetItem"
    /\ \E out \in GetOutcomes :
         LET e == IF out = "failed" THEN ErrRequest
                  ELSE IF out = "undecodable" THEN ErrUnmarshal
                  ELSE Nil
         IN  /\ out = "undecodable" => cfg.Verbose
             /\ faulted' = (faulted \/ out # "acked")
             /\ RetryPass(w, e)
             /\ CountWrite(w, e)
             /\ Send(w, ri[w] = 0)
    /\ UNCHANGED << cfg, record, committed, obsVer, successGetCount, errorGetCount,
                    phase, exitStatus, duration_ms, average_ms, initial, applied,
                    tokensSent, sinceRead, log, lastSuccessedTimeNanoUnix, unacked >>

\* A write worker's atomic.StoreInt64(lastSuccessedTimeNanoUnix, ...) of the
\* time it sampled, and its loop's next iteration or its return.
WorkerStoreInt64(w) ==
    /\ phase = "Running"
    /\ pc[w] = "StoreInt64"
    /\ lastSuccessedTimeNanoUnix' = StoreInt64(lastSuccessedTimeNanoUnix, sample[w])
    /\ sample' = [sample EXCEPT ![w] = 0]
    /\ NextIteration(w)
    /\ UNCHANGED << cfg, record, committed, ri, obsVer, successCount, errorCount,
                    successGetCount, errorGetCount, phase, exitStatus, duration_ms,
                    average_ms, clock, initial, faulted, ftrace, ret, applied,
                    tokensSent, sinceRead, log, begun, sent, recorded, slept,
                    unacked >>

\* A Run that does not wait for its workers.
JoinedWithoutWaiting == TRUE

\* wg.Wait() returns: every wg.Add(1) has met its wg.Done().
Joined == wg = 0

\* Run after wg.Wait: a timestamp no worker stored is set to time.Now(), then
\* the summary, and main's return.  The division panics on a zero divisor.
Report ==
    /\ phase = "Running"
    /\ Joined
    /\ IF lastSuccessedTimeNanoUnix = 0
       THEN lastSuccessedTimeNanoUnix' = TimeNow /\ clock' = TimeNow
       ELSE UNCHANGED << lastSuccessedTimeNanoUnix, clock >>
    /\ \E ms \in 0 .. MaxElapsedMs :
         /\ duration_ms' = ms
         /\ IF TotalCalls = 0
            THEN /\ phase' = "Panicked"
                 /\ exitStatus' = PanicExitStatus
                 /\ average_ms' = average_ms
            ELSE /\ phase' = "Reported"
                 /\ exitStatus' = MainReturnExitStatus
                 /\ average_ms' = GoDiv(ms, TotalCalls)
    /\ UNCHANGED << cfg, record, committed, pc, it, ri, obsVer, successCount,
                    errorCount, successGetCount, errorGetCount, wg, initial, faulted,
                    ftrace, ret, applied, tokensSent, sinceRead, log, sample, begun,
                    sent, recorded, slept, unacked >>

Next ==
    \/ Main
    \/ \E w \in Workers : WorkerReturn(w)
    \/ \E w \in Workers : ReadWorker(w)
    \/ \E w \in Workers : WriteWorkerUpdate(w)
    \/ \E w \in Workers : WriteWorkerConditionGet(w)
    \/ \E w \in Workers : WriteWorkerConditionUpdate(w)
    \/ \E w \in Workers : WriteWorkerTransaction(w)
    \/ \E w \in Workers : WorkerStoreInt64(w)
    \/ Report

Spec == Init /\ [][Next]_vars

\* The Go scheduler runs every runnable goroutine, every store call returns (with
\* a response or an error) and every time.Sleep ends: a step that can be taken
\* is taken.
SpecFair == Init /\ [][Next]_vars /\ WF_vars(Next)

\* ------------------------------------------------------------- properties
Iterations == cfg.Connections * cfg.NumCalls

\* The result of the call worker w made last.
LastResult(w) ==
    IF ret[w] # None THEN ret[w].calls[Len(ret[w].calls)]
    ELSE ftrace[w][Len(ftrace[w])]

\* C1: with attempts >= 1, retry invokes f until it returns nil or attempts calls have failed: a
\* retry that returned nil made k failing calls, k < attempts, and then one
\* succeeding call; a retry that returned an error made exactly attempts calls,
\* all failing, and its error reports attempts and the last call's error; a
\* retry still running has made fewer than attempts calls, all failing.
C1_RetryContract ==
    cfg.RetryNum >= 1 =>
    \A w \in Workers :
        /\ Len(ftrace[w]) = ri[w]
        /\ Len(ftrace[w]) < cfg.RetryNum
        /\ \A k \in 1 .. Len(ftrace[w]) : ftrace[w][k] # Nil
        /\ ret[w] # None =>
             LET calls == ret[w].calls
                 n == Len(calls)
             IN  /\ n >= 1
                 /\ \A k \in 1 .. n - 1 : calls[k] # Nil
                 /\ ret[w].val = NilError => (calls[n] = Nil /\ n - 1 < cfg.RetryNum)
                 /\ ret[w].val # NilError =>
                      /\ n = cfg.RetryNum
                      /\ calls[n] # Nil
                      /\ ret[w].val = [attempts |-> cfg.RetryNum, last |-> calls[n]]

\* C1 witness: one retry returned nil on its second call and another gave up
\* after two failing calls.
C1_Witness ==
    \E w, u \in Workers :
        /\ ret[w] # None /\ ret[w].val = NilError /\ Len(ret[w].calls) = 2
        /\ ret[u] # None /\ ret[u].val # NilError /\ Len(ret[u].calls) = 2

\* C2 as stated: at the report the write counters sum to concurrency x
\* iterations for every action, and so do the pre-read counters under
\* read-then-conditional-write.
C2_Original ==
    phase = "Reported" =>
        /\ successCount + errorCount = Iterations
        /\ WorkerOf(cfg.Action) = "startWriteWorkerCondition" =>
             successGetCount + errorGetCount = Iterations

\* C2 amended: at the report, under read-then-conditional-write the pre-read
\* counters sum to concurrency x iterations and the write counters sum to the
\* pre-read successes (an iteration whose read failed issues no write); under
\* every other action the write counters sum to concurrency x iterations and
\* the pre-read counters are zero.
C2_CountersAccountForIterations ==
    phase = "Reported" =>
        IF WorkerOf(cfg.Action) = "startWriteWorkerCondition"
        THEN /\ successGetCount + errorGetCount = Iterations
             /\ successCount + errorCount = successGetCount
        ELSE /\ successCount + errorCount = Iterations
             /\ successGetCount = 0
             /\ errorGetCount = 0

\* C2 witness: a reported read-then-conditional-write run with a failed
\* pre-read, a successful write and a failed write.
C2_Witness ==
    /\ phase = "Reported"
    /\ WorkerOf(cfg.Action) = "startWriteWorkerCondition"
    /\ errorGetCount >= 1
    /\ successCount >= 1
    /\ errorCount >= 1

\* C3 as stated: a write-condition run without store failures on a record of
\* age a >= floor with enough iterations ends with a - floor successes, every
\* other iteration an error, and age = floor.
C3_Original ==
    ( /\ phase = "Reported"
      /\ cfg.Action = "write-condition"
      /\ ~faulted
      /\ initial.age >= cfg.Condition
      /\ Iterations >= initial.age - cfg.Condition ) =>
        /\ successCount = initial.age - cfg.Condition
        /\ errorCount = Iterations - (initial.age - cfg.Condition)
        /\ record.age = cfg.Condition

\* C4 as stated: an UpdateItem submitted while age equals the floor leaves age
\* and ver as they were and returns an error.
C4_Original ==
    [][\A w \in Workers :
          ( /\ WriteWorkerUpdate(w) \/ WriteWorkerConditionUpdate(w)
            /\ record.age = cfg.Condition ) =>
              (record' = record /\ LastResult(w)' # Nil)]_vars

\* C5 as stated: under write-transaction with two or more attempts the store
\* applies at most one decrement for an iteration.
C5_Original ==
    (cfg.Action = "write-transaction" /\ cfg.RetryNum >= 2) =>
        \A w \in Workers : applied[w] <= 1

\* C6 as stated: all the attempts of one iteration submit one token.
C6_Original ==
    cfg.Action = "write-transaction" =>
        \A w \in Workers : Cardinality(tokensSent[w]) <= 1

\* C7 as stated: under read-then-conditional-write a worker submits at most one
\* UpdateItem per GetItem: an update the condition refused is not submitted
\* again with the version it carried.  Stated for runs without transport or
\* decode failures, where the only failed update is a refused one.
C7_Original ==
    (WorkerOf(cfg.Action) = "startWriteWorkerCondition" /\ ~faulted) =>
        \A w \in Workers : sinceRead[w] <= 1

\* The age of the record while its version is v, when every update applied so
\* far moved age and ver together.
AgeAt(v) == initial.age - (v - initial.ver)

\* Two finished iterations of the two workers carried the same version, read
\* while age was at or above the floor.
SameVersionRace(j, k) ==
    /\ log[1][j].obs = log[2][k].obs
    /\ log[1][j].obs >= initial.ver
    /\ AgeAt(log[1][j].obs) >= cfg.Condition

\* Exactly one of the two won, the other was refused by the condition on every
\* call, and the update was applied once with age and ver moving together.
OneWinner(j, k) ==
    /\ {log[1][j].res, log[2][k].res} = {"ok", "refused"}
    /\ record.ver > log[1][j].obs
    /\ record.age + record.ver = initial.age + initial.ver
    /\ cfg.NumCalls = 1 => record = UpdateExpression(initial)

C9_Original ==
    ( /\ phase = "Reported"
      /\ cfg.Action = "write"
      /\ cfg.Connections = 1
      /\ cfg.NumCalls = 1
      /\ ~faulted ) =>
        /\ record.age = initial.age + 1
        /\ successCount = 1
        /\ errorCount = 0

\* C10: the reported average is the integer quotient of the elapsed
\* milliseconds by the sum of the four counters.
C10_AverageLatency ==
    phase = "Reported" =>
        LET total == successCount + errorCount + successGetCount + errorGetCount
        IN  /\ total >= 1
            /\ average_ms * total <= duration_ms
            /\ duration_ms < (average_ms + 1) * total

\* C10 witness: a report whose divisor counts pre-reads and does not divide the
\* elapsed time.
C10_Witness ==
    /\ phase = "Reported"
    /\ successGetCount >= 1
    /\ successCount + errorCount >= 1
    /\ duration_ms = 3
    /\ average_ms = 1

\* C11 as stated: with an empty table name or record id the process prints the
\* usage, ends with a non-zero exit status and launches no worker.
C11_Original ==
    (phase # "Idle" /\ ~ValidFlags) =>
        /\ phase = "Usage"
        /\ exitStatus > 0
        /\ \A w \in Workers : pc[w] = "idle"

\* C12 as stated: Run is entered only with concurrency, iterations and retry
\* attempts all at least 1, and the summary never divides by zero.
C12_Original ==
    phase \in {"Running", "Reported", "Panicked"} =>
        /\ cfg.Connections >= 1
        /\ cfg.NumCalls >= 1
        /\ cfg.RetryNum >= 1
        /\ phase # "Panicked"

\* C13: when Run has computed the summary (or panicked computing it), every
\* worker has returned, having gone through all of its iterations and with no
\* retry under way.
C13_SummaryAfterJoin ==
    phase \in {"Reported", "Panicked"} =>
        \A w \in Workers :
            /\ pc[w] = "done"
            /\ ri[w] = 0
            /\ cfg.NumCalls >= 1 => it[w] = cfg.NumCalls

\* C13 witness: a reported run of two workers and two iterations each in which
\* every iteration failed.
C13_Witness ==
    /\ phase = "Reported"
    /\ cfg.Connections = 2
    /\ cfg.NumCalls = 2
    /\ successCount = 0
    /\ errorCount = 4

\* C14: with at least one worker and one iteration, whatever the store calls
\* meet, a fairly scheduled run reaches the report, and at the report every
\* worker has gone through all of its iterations.
C14_RunReachesReport ==
    (phase = "Running" /\ cfg.Connections >= 1 /\ cfg.NumCalls >= 1) ~>
        ( /\ phase = "Reported"
          /\ \A w \in Workers : pc[w] = "done" /\ it[w] = cfg.NumCalls )

\* C14 witness: a report after a run of two workers whose store calls met
\* failures and in which iterations both failed and succeeded.
C14_Witness ==
    /\ phase = "Reported"
    /\ faulted
    /\ cfg.Connections = 2
    /\ cfg.NumCalls = 2
    /\ errorCount >= 1
    /\ successCount >= 1

\* The iterations the workers 1 .. n have entered.
RECURSIVE IterationsBegun(_)
IterationsBegun(n) == IF n = 0 THEN 0 ELSE begun[n] + IterationsBegun(n - 1)

\* The store calls one iteration of the action can make.
CallBudget ==
    LET calls == IF cfg.RetryNum >= 1 THEN cfg.RetryNum ELSE 1
    IN  IF WorkerOf(cfg.Action) = "startWriteWorkerCondition" THEN 2 * calls ELSE calls

\* C15 as stated: a reported run went through concurrency x iterations
\* iterations, and with retryAttempts >= 1 no iteration of any action makes
\* more than retryAttempts store calls.
C15_Original ==
    /\ phase = "Reported" => IterationsBegun(cfg.Connections) = Iterations
    /\ cfg.RetryNum >= 1 => \A w \in Workers : sent[w] <= cfg.RetryNum

\* C15 amended: a reported run went through concurrency x iterations
\* iterations, no worker enters more than its iterations, and an iteration
\* makes at most retryAttempts store calls (one call when retryAttempts is
\* below 1), except under read-then-conditional-write, where the read and the
\* update each have that many calls and an iteration makes at most twice as
\* many.
C15_IterationCallBudget ==
    /\ phase = "Reported" => IterationsBegun(cfg.Connections) = Iterations
    /\ \A w \in Workers :
          /\ begun[w] <= cfg.NumCalls
          /\ begun[w] <= it[w]
          /\ sent[w] <= CallBudget

\* C15 witness: a reported read-then-conditional-write run with two attempts in
\* which an iteration made four store calls.
C15_Witness ==
    /\ phase = "Reported"
    /\ WorkerOf(cfg.Action) = "startWriteWorkerCondition"
    /\ cfg.RetryNum = 2
    /\ \E w \in Workers : sent[w] = 4

\* C16 as stated: with two or more workers the shared timestamp never
\* decreases: every store writes a value at or above the one it replaces.
C16_Original ==
    [][cfg.Connections >= 2 =>
          lastSuccessedTimeNanoUnix' >= lastSuccessedTimeNanoUnix]_vars

\* C16 amended: every store into the timestamp writes the clock sample the
\* storing worker took after its success, a time after the start and not in
\* the future, whatever it replaces; the value never decreases in a run with
\* one worker, and with more workers it decreases only when the store replaces
\* a later sample of another worker.
C16_StoreWritesOwnSample ==
    [][\A w \in Workers :
          WorkerStoreInt64(w) =>
              /\ lastSuccessedTimeNanoUnix' = sample[w]
              /\ 0 < sample[w] /\ sample[w] <= clock
              /\ cfg.Connections = 1 =>
                    lastSuccessedTimeNanoUnix' > lastSuccessedTimeNanoUnix]_vars

\* C16 witness: with two workers, the timestamp holds the earlier of the two
\* samples taken, stored after the later one.
C16_Witness ==
    /\ cfg.Connections = 2
    /\ clock = 2
    /\ lastSuccessedTimeNanoUnix = 1
    /\ \A w \in Workers : pc[w] = "done" /\ sample[w] = 0

\* The four counters, by name.
Counters ==
    [successCount |-> successCount, errorCount |-> errorCount,
     successGetCount |-> successGetCount, errorGetCount |-> errorGetCount]

\* C17: no increment is lost and no counter decreases: before and after every
\* step each of the four counters equals the number of iteration outcomes the
\* workers have recorded into it, and a step leaves each counter as it was or
\* adds one to it.
C17_NoLostIncrement ==
    [][/\ Counters = recorded
       /\ Counters' = recorded'
       /\ \A c \in DOMAIN Counters :
             Counters'[c] = Counters[c] \/ Counters'[c] = Counters[c] + 1]_vars

\* C17 witness: the report of a run of two workers that recorded outcomes into
\* each of the four counters.
C17_Witness ==
    /\ phase = "Reported"
    /\ cfg.Connections = 2
    /\ \A c \in DOMAIN Counters : Counters[c] >= 1 /\ Counters[c] = recorded[c]

\* C18: under write-condition, write-condition-with-get and write-transaction
\* no step lowers the record's version or raises its age, and the two move
\* together: a step leaves the record as it was or adds one to ver and takes
\* one from age.
C18_VersionUpAgeDown ==
    [][cfg.Action \in {"write-condition", "write-condition-with-get",
                       "write-transaction"} =>
          /\ record'.ver >= record.ver
          /\ record'.age <= record.age
          /\ record' # record =>
                (record'.ver = record.ver + 1 /\ record'.age = record.age - 1)]_vars

\* C18 witness: two workers under one of the three actions have moved the
\* record twice.
C18_Witness ==
    /\ cfg.Action \in {"write-condition", "write-condition-with-get",
                        "write-transaction"}
    /\ cfg.Connections = 2
    /\ record.ver = initial.ver + 2
    /\ record.age = initial.age - 2

\* C19 as stated: under read-then-conditional-write with one attempt, a GetItem
\* that meets a failure (the first any store call of the run meets) ends the
\* iteration: the failed pre-read counter goes up by one, the successful
\* pre-read counter stays, and the worker does not go on to UpdateItem.
C19_Original ==
    [][\A w \in Workers :
          ( /\ WriteWorkerConditionGet(w)
            /\ cfg.RetryNum = 1
            /\ ~faulted
            /\ faulted' ) =>
              /\ errorGetCount' = errorGetCount + 1
              /\ successGetCount' = successGetCount
              /\ pc'[w] # "UpdateItem"]_vars

\* C20 as stated: under the read action the write counters stay at zero and a
\* reported run has its iterations in the pre-read (GET) counters.
C20_Original ==
    cfg.Action = "read" =>
        /\ successCount = 0
        /\ errorCount = 0
        /\ phase = "Reported" => successGetCount + errorGetCount = Iterations

\* C20 amended: under the read action a pass of retry that sleeps changes no
\* counter, the pass on which retry returns nil adds one to successCount, the
\* pass on which retry gives up adds one to errorCount, and successGetCount
\* and errorGetCount stay at zero.
C20_ReadCountsIntoSentAndErrors ==
    [][\A w \in Workers :
          ReadWorker(w) =>
              /\ successGetCount' = 0
              /\ errorGetCount' = 0
              /\ successCount' =
                    successCount + (IF LastResult(w)' = Nil THEN 1 ELSE 0)
              /\ errorCount' =
                    errorCount + (IF ret'[w] # None /\ LastResult(w)' # Nil THEN 1 ELSE 0)]_vars

\* C20 witness: a reported read run with a successful and a failed iteration
\* and nothing in the pre-read counters.
C20_Witness ==
    /\ phase = "Reported"
    /\ cfg.Action = "read"
    /\ successCount >= 1
    /\ errorCount >= 1
    /\ successGetCount = 0
    /\ errorGetCount = 0

\* The errors of an update whose condition the store found false.
ConditionFailures == {ErrConditionalCheckFailed, ErrTransactionCanceled}

\* C21: a condition failure takes one attempt like any other failure.  When a
\* conditional or transactional update comes back with its condition failed
\* and attempts remain, retry goes on to the next attempt of the same call and
\* no counter changes; when it was the last attempt, retry has made exactly
\* retryAttempts calls, its error carries the condition failure, and the
\* iteration adds exactly one to errorCount and nothing to successCount.
C21_ConditionFailureConsumesAttempt ==
    [][\A w \in Workers :
          ( /\ \/ WriteWorkerUpdate(w)
               \/ WriteWorkerConditionUpdate(w)
               \/ WriteWorkerTransaction(w)
            /\ cfg.RetryNum >= 1
            /\ LastResult(w)' \in ConditionFailures ) =>
              /\ successCount' = successCount
              /\ IF ri[w] + 1 < cfg.RetryNum
                 THEN /\ ret'[w] = None
                      /\ ri'[w] = ri[w] + 1
                      /\ pc'[w] = pc[w]
                      /\ it'[w] = it[w]
                      /\ errorCount' = errorCount
                 ELSE /\ Len(ret'[w].calls) = cfg.RetryNum
                      /\ ret'[w].val = RetryError(cfg.RetryNum, LastResult(w)')
                      /\ errorCount' = errorCount + 1]_vars

\* C21 witness: a retry of two attempts whose calls both came back with the
\* condition failed, counted as one error.
C21_Witness ==
    \E w \in Workers :
        /\ cfg.RetryNum = 2
        /\ ret[w] # None
        /\ Len(ret[w].calls) = 2
        /\ \A k \in 1 .. 2 : ret[w].calls[k] \in ConditionFailures
        /\ errorCount = 1
        /\ successCount = 0

\* C22: retry sleeps only between two attempts.  A retry under way has slept
\* once after each of its failed calls; a retry that returned after m calls
\* slept m - 1 times, so it did not sleep after its last call, successful or
\* not.
C22_SleepsBetweenAttempts ==
    \A w \in Workers :
        /\ slept[w] = Len(ftrace[w])
        /\ ret[w] # None => ret[w].sleeps = Len(ret[w].calls) - 1

\* C22 witness: one retry returned nil on its second call after one sleep and
\* another gave up after two calls and one sleep.
C22_Witness ==
    \E w, u \in Workers :
        /\ ret[w] # None /\ ret[w].val = NilError /\ ret[w].sleeps = 1
        /\ ret[u] # None /\ ret[u].val # NilError /\ ret[u].sleeps = 1

\* C23: every iteration a worker has entered has made a store call, and with
\* attempts <= 0 retry calls f once and never sleeps: no retry is ever past
\* its first pass, and a retry that returned made one call and no sleep and
\* returned nil when the call succeeded and otherwise the error that reports
\* attempts and the call's error.
C23_OneCallWithoutAttempts ==
    \A w \in Workers :
        /\ begun[w] >= 1 => sent[w] >= 1
        /\ cfg.RetryNum <= 0 =>
              /\ ri[w] = 0
              /\ slept[w] = 0
              /\ ftrace[w] = << >>
              /\ ret[w] # None =>
                    /\ Len(ret[w].calls) = 1
                    /\ ret[w].sleeps = 0
                    /\ ret[w].val = IF ret[w].calls[1] = Nil THEN NilError
                                     ELSE RetryError(cfg.RetryNum, ret[w].calls[1])

\* C23 witness: a reported run with attempts <= 0 in which one iteration
\* succeeded and another failed, each on its only call.
C23_Witness ==
    /\ phase = "Reported"
    /\ cfg.RetryNum <= 0
    /\ successCount >= 1
    /\ errorCount >= 1
    /\ \A w \in Workers : sent[w] = 1

\* C24: under write-condition, write-condition-with-get and write-transaction
\* age + ver keeps its initial value before and after every step, and an
\* update that comes back with its condition failed leaves age and ver as
\* they were.
C24_AgePlusVersion ==
    [][cfg.Action \in {"write-condition", "write-condition-with-get",
                       "write-transaction"} =>
          /\ record.age + record.ver = initial.age + initial.ver
          /\ record'.age + record'.ver = initial.age + initial.ver
          /\ \A w \in Workers :
                ( /\ \/ WriteWorkerUpdate(w)
                     \/ WriteWorkerConditionUpdate(w)
                     \/ WriteWorkerTransaction(w)
                  /\ LastResult(w)' \in ConditionFailures ) => record' = record]_vars

\* C24 witness: under one of the three actions an update was applied, moving
\* age down and ver up by one, and a later update was refused.
C24_Witness ==
    /\ cfg.Action \in {"write-condition", "write-condition-with-get",
                        "write-transaction"}
    /\ record.age = initial.age - 1
    /\ record.ver = initial.ver + 1
    /\ successCount = 1
    /\ \E w \in Workers :
          /\ ret[w] # None
          /\ ret[w].calls[Len(ret[w].calls)] \in ConditionFailures

\* C25: under write-transaction, on a record whose age starts at 0 or above,
\* age is never below 0, whatever -condition is.
C25_TransactionAgeNotNegative ==
    (cfg.Action = "write-transaction" /\ initial.age >= 0) => record.age >= 0

\* C25 witness: under write-transaction with -condition 1, two workers took
\* age from 2 to 0 and a transaction submitted at age 0 was cancelled.
C25_Witness ==
    /\ cfg.Action = "write-transaction"
    /\ cfg.Condition = 1
    /\ cfg.Connections = 2
    /\ initial.age = 2
    /\ record.age = 0
    /\ \E w \in Workers :
          /\ ret[w] # None
          /\ ret[w].calls[Len(ret[w].calls)] = ErrTransactionCanceled

\* The decrements the store has applied to the record.
Decrements == initial.age - record.age

\* C26: at the report of a run of a write action successCount is at most the
\* number of decrements applied to the record, and equals it when every store
\* call that applied an update returned success to its worker.
C26_SuccessesWithinDecrements ==
    (phase = "Reported" /\ WorkerOf(cfg.Action) # "startReadWorker") =>
        /\ successCount <= Decrements
        /\ ~unacked => successCount = Decrements

\* C26 witness: a reported write run in which the store applied two
\* decrements and the worker of one of them got an error for it.
C26_Witness ==
    /\ phase = "Reported"
    /\ WorkerOf(cfg.Action) # "startReadWorker"
    /\ unacked
    /\ successCount = 1
    /\ Decrements = 2

====
